---- MODULE Spec2Model ----
(***************************************************************************)
(* Model of the furnace controller class Nabertherm of src/nabertherm.py:  *)
(* run (the poll loop), stop_run, pause and read_single_internal_program,  *)
(* executed by caller threads that share one controller object.            *)
(*                                                                         *)
(* Every statement that reads or writes a field of the controller is one   *)
(* step of the calling thread, so two calls on the same controller         *)
(* interleave between statements as Python threads do.                     *)
(*                                                                         *)
(* Calls that leave the repository are environment steps with every        *)
(* outcome the callee can have:                                            *)
(*   - self.client.read_holding_registers / write_registers (pymodbus):    *)
(*     the request is acknowledged or it raises;                           *)
(*   - self.start() and self.stop(), resolved on the inherited thread      *)
(*     class (Nabertherm defines neither): the call returns or it raises.  *)
(*     With CPython's threading.Thread, start() raises RuntimeError on     *)
(*     every call after the first and stop() does not exist, so the call   *)
(*     raises AttributeError; both are outcomes of the model.              *)
(*     The model keeps the one fact about start() that decides who can     *)
(*     be refused: a thread that was never started is not refused.         *)
(* A register request is in flight from the moment it is sent until its    *)
(* response (or its failure) reaches the calling thread; other threads run *)
(* meanwhile.                                                              *)
(* Names the source never binds (Ending at line 339) raise NameError.      *)
(***************************************************************************)
EXTENDS Integers, Sequences, FiniteSets, TLC

\* ------------------------------------------------------------------ bounds
MaxValue == 2       \* the elapsed counter self.value is followed up to here
MaxInterval == 1    \* poll intervals passed to run are 0..MaxInterval
MaxSamples == 2     \* samples followed in logging_time / logging_temp

\* ------------------------------------------------------------- input sets
Threads == {"t1", "t2"}
NoProgram == "None"                       \* Python None in running_program
ProgramNames == {"P1"}                    \* keys a program collection may hold
RunNames == ProgramNames \cup {"missing"} \* names passed to run
Intervals == 0 .. MaxInterval
DefaultInterval == 1
MinProgramNumber == 0
MaxProgramNumber == 50
ProgramNumbers == {MinProgramNumber - 1, MinProgramNumber, 3,
                   MaxProgramNumber, MaxProgramNumber + 1}
RawValues == {215}                        \* register contents, tenths of a degree
ThreadOutcomes == {"returns", "raises"}   \* of self.start() / self.stop()
ChannelOutcomes == {"ack", "fails"}       \* of one register request

\* the three shapes self.programs can have when run reads it: never assigned
\* (no statement of the class assigns it), an empty collection, or a catalog
ProgramCollections ==
    { [defined |-> FALSE, keys |-> {}],
      [defined |-> TRUE,  keys |-> {}],
      [defined |-> TRUE,  keys |-> ProgramNames] }

\* register addresses and opcodes of the command register
REG_TEMPERATURE == 100
REG_SET_POINT == 111
REG_REMAINING_TIME == 128
REG_COMMAND == 148
OP_START == 1
OP_STOP == 2

VARIABLES
    \* fields of the controller object
    running_program, alive, interval, value, logging_time, logging_temp,
    programs,
    \* the controller, a threading.Thread, has been started
    started,
    \* the threads whose register request is in flight on self.client
    outstanding,
    \* per calling thread: position, operation, arguments, pending return
    \* address of a nested stop_run, outcome of the last call, channel
    \* requests issued by the current (or, when idle, the last) call
    pc, op, arg, ret, result, io,
    \* history: the local state the thread's latest call left when that call
    \* was stop_run; stop requests made while a run was sleeping
    hist, target, stopped

shared == <<running_program, alive, interval, value, logging_time,
            logging_temp, programs, started>>
local == <<pc, op, arg, ret, result, io>>
ghost == <<hist, target, stopped>>
vars == <<running_program, alive, interval, value, logging_time,
          logging_temp, programs, started, outstanding, pc, op, arg, ret,
          result, io, hist, target, stopped>>

NoArg == [name |-> "-", ivl |-> 0, log |-> FALSE, n |-> 0]
NoHist == [stop |-> FALSE, alive |-> FALSE, rp |-> NoProgram]

\* float(raw)/10.0: a temperature in degrees, kept as <<whole degrees, tenths>>
DecodeTenths(raw) == <<raw \div 10, raw % 10>>

\* one request on the register channel, as recorded per call
Request(kind, address, values, outcome) ==
    [k |-> kind, a |-> address, v |-> values, res |-> outcome]
StopCommand == <<OP_STOP>>
StartCommand(program_number, segment_number) ==
    <<OP_START, program_number, segment_number>>

\* the controller's local state is Idle
Idle == running_program = NoProgram /\ alive = FALSE

\* __init__, lines 212-233: the fields after construction, with the default
\* interval=1.0 of line 214
Init ==
    /\ running_program = NoProgram
    /\ alive = FALSE
    /\ interval = DefaultInterval
    /\ value = 0
    /\ logging_time = <<>>
    /\ logging_temp = <<>>
    /\ programs \in ProgramCollections
    /\ started = FALSE
    /\ outstanding = {}
    /\ pc = [t \in Threads |-> "idle"]
    /\ op = [t \in Threads |-> "none"]
    /\ arg = [t \in Threads |-> NoArg]
    /\ ret = [t \in Threads |-> "top"]
    /\ result = [t \in Threads |-> "none"]
    /\ io = [t \in Threads |-> <<>>]
    /\ hist = [t \in Threads |-> NoHist]
    /\ target = [t \in Threads |-> {}]
    /\ stopped = [t \in Threads |-> FALSE]

\* a call of thread t begins
Enter(t, operation, a, first) ==
    /\ pc[t] = "idle"
    /\ pc' = [pc EXCEPT ![t] = first]
    /\ op' = [op EXCEPT ![t] = operation]
    /\ arg' = [arg EXCEPT ![t] = a]
    /\ ret' = [ret EXCEPT ![t] = "top"]
    /\ result' = [result EXCEPT ![t] = "none"]
    /\ io' = [io EXCEPT ![t] = <<>>]
    /\ UNCHANGED outstanding

\* the call of thread t goes on at its next statement; a request the
\* statement was waiting for is no longer in flight
Continue(t, next) ==
    /\ pc' = [pc EXCEPT ![t] = next]
    /\ outstanding' = outstanding \ {t}
    /\ UNCHANGED <<arg, result, hist>>

\* the call of thread t ends, returning ("ok") or raising res; rp and al are
\* the values running_program and alive have after the step
Leave(t, res, rp, al) ==
    /\ pc' = [pc EXCEPT ![t] = "idle"]
    /\ outstanding' = outstanding \ {t}
    /\ result' = [result EXCEPT ![t] = res]
    /\ arg' = [arg EXCEPT ![t] = NoArg]
    /\ hist' = [hist EXCEPT ![t] =
                  IF op[t] = "stop_run"
                  THEN [stop |-> TRUE, alive |-> al, rp |-> rp]
                  ELSE NoHist]

\* the statements that make a request on self.client: lines 274, 285, 344
\* (called from 313), 324 (called from 315) and 338 (called from 317)
RequestPCs == {"r274", "s285", "q313", "q315", "q317"}

\* thread t hands its request to self.client; nothing in the source holds a
\* lock around the call, so no other thread's request is waited for
Send(t) ==
    /\ pc[t] \in RequestPCs
    /\ t \notin outstanding
    /\ pc[t] = "r274" => Len(logging_time) < MaxSamples
    /\ outstanding' = outstanding \cup {t}
    /\ UNCHANGED <<shared, local, ghost>>

\* ------------------------------------------------------------------- run
RunContinue(t, next) == Continue(t, next) /\ UNCHANGED <<target, stopped>>

\* run ends (it returns, or an exception leaves it): stop requests aimed at
\* this run lapse
RunLeaves(t, res) ==
    /\ Leave(t, res, running_program, alive)
    /\ target' = [u \in Threads |-> target[u] \ {t}]
    /\ stopped' = [stopped EXCEPT ![t] = FALSE]

\* run(program_name, interval, log) is called
Run_Call(t) ==
    /\ \E name \in RunNames, ivl \in Intervals, log \in BOOLEAN :
          Enter(t, "run", [NoArg EXCEPT !.name = name, !.ivl = ivl,
                                        !.log = log], "r254")
    /\ UNCHANGED <<shared, ghost>>

\* Thread.start() as called at lines 254 and 263: it returns, and the thread
\* counts as started, or it raises; a thread never started is not refused
ThreadStart(o) ==
    /\ o = "raises" => started
    /\ started' = (started \/ o = "returns")

\* line 254: self.start(), outside the try block
Run_L254(t, o) ==
    /\ pc[t] = "r254"
    /\ ThreadStart(o)
    /\ IF o = "returns"
       THEN RunContinue(t, "r255")
       ELSE RunLeaves(t, "RuntimeError")
    /\ UNCHANGED <<running_program, alive, interval, value, logging_time,
                   logging_temp, programs, op, ret, io>>

\* line 255: self.interval = interval
Run_L255(t) ==
    /\ pc[t] = "r255"
    /\ interval' = arg[t].ivl
    /\ RunContinue(t, "r256")
    /\ UNCHANGED <<running_program, alive, value, logging_time, logging_temp,
                   programs, started, op, ret, io>>

\* lines 256-257: if not self.programs: raise ValueError
Run_L256(t) ==
    /\ pc[t] = "r256"
    /\ IF ~programs.defined
       THEN RunLeaves(t, "AttributeError")
       ELSE IF programs.keys = {}
       THEN RunLeaves(t, "ValueError")
       ELSE RunContinue(t, "r259")
    /\ UNCHANGED <<shared, op, ret, io>>

\* lines 259-260: if self.running_program: raise ConnectionRefusedError
\* (no KeyError, so the except clause of line 278 lets it through)
Run_L259(t) ==
    /\ pc[t] = "r259"
    /\ IF running_program # NoProgram
       THEN RunLeaves(t, "ConnectionRefusedError")
       ELSE RunContinue(t, "r261")
    /\ UNCHANGED <<shared, op, ret, io>>

\* line 261: self.running_program = self.programs[program_name]; a missing
\* key raises KeyError, re-raised by lines 278-279
Run_L261(t) ==
    /\ pc[t] = "r261"
    /\ IF arg[t].name \in programs.keys
       THEN running_program' = arg[t].name /\ RunContinue(t, "r262")
       ELSE UNCHANGED running_program /\ RunLeaves(t, "KeyError")
    /\ UNCHANGED <<alive, interval, value, logging_time, logging_temp,
                   programs, started, op, ret, io>>

\* line 262: self.alive = True
Run_L262(t) ==
    /\ pc[t] = "r262"
    /\ alive' = TRUE
    /\ RunContinue(t, "r263")
    /\ UNCHANGED <<running_program, interval, value, logging_time,
                   logging_temp, programs, started, op, ret, io>>

\* line 263: self.start(), inside the try block; its exception is no KeyError
Run_L263(t, o) ==
    /\ pc[t] = "r263"
    /\ ThreadStart(o)
    /\ IF o = "returns"
       THEN RunContinue(t, "r270")
       ELSE RunLeaves(t, "RuntimeError")
    /\ UNCHANGED <<running_program, alive, interval, value, logging_time,
                   logging_temp, programs, op, ret, io>>

\* line 270: while self.alive; with the flag off the loop ends and run
\* returns None
Run_L270(t) ==
    /\ pc[t] = "r270"
    /\ IF alive
       THEN RunContinue(t, "r271")
       ELSE RunLeaves(t, "ok")
    /\ UNCHANGED <<shared, op, ret, io>>

\* line 271: time.sleep(self.interval)
Run_L271(t) ==
    /\ pc[t] = "r271"
    /\ RunContinue(t, "r272")
    /\ UNCHANGED <<shared, op, ret, io>>

\* lines 272-273: self.value += self.interval; if log
Run_L272(t) ==
    /\ pc[t] = "r272"
    /\ value + interval <= MaxValue
    /\ value' = value + interval
    /\ RunContinue(t, IF arg[t].log THEN "r274" ELSE "r270")
    /\ UNCHANGED <<running_program, alive, interval, logging_time,
                   logging_temp, programs, started, op, ret, io>>

\* lines 274-276 as they would behave if sampling commanded the furnace: the
\* request of the tick is a write to the command register
Run_L274_Commands(t, o, raw) ==
    /\ pc[t] = "r274"
    /\ t \in outstanding
    /\ Len(logging_time) < MaxSamples
    /\ io' = [io EXCEPT ![t] =
                Append(@, Request("w", REG_COMMAND, StopCommand, o))]
    /\ IF o = "ack"
       THEN /\ logging_temp' = Append(logging_temp, DecodeTenths(raw))
            /\ logging_time' = Append(logging_time, value)
            /\ RunContinue(t, "r270")
       ELSE /\ UNCHANGED <<logging_temp, logging_time>>
            /\ RunLeaves(t, "ConnectionException")
    /\ UNCHANGED <<running_program, alive, interval, value, programs, started,
                   op, ret>>

\* lines 274-276: read the temperature register and append the sample; a
\* failed read raises out of run (the except clause catches KeyError only)
Run_L274(t, o, raw) ==
    /\ pc[t] = "r274"
    /\ t \in outstanding
    /\ Len(logging_time) < MaxSamples
    /\ io' = [io EXCEPT ![t] =
                Append(@, Request("r", REG_TEMPERATURE, <<1>>, o))]
    /\ IF o = "ack"
       THEN /\ logging_temp' = Append(logging_temp, DecodeTenths(raw))
            /\ logging_time' = Append(logging_time, value)
            /\ RunContinue(t, "r270")
       ELSE /\ UNCHANGED <<logging_temp, logging_time>>
            /\ RunLeaves(t, "ConnectionException")
    /\ UNCHANGED <<running_program, alive, interval, value, programs, started,
                   op, ret>>

\* ----------------------------------------------------------------- pause
\* lines 301-302: self.alive = False
Pause(t) ==
    /\ Enter(t, "pause", NoArg, "idle")
    /\ alive' = FALSE
    /\ hist' = [hist EXCEPT ![t] = NoHist]
    /\ UNCHANGED <<running_program, interval, value, logging_time,
                   logging_temp, programs, started, target, stopped>>

\* -------------------------------------------------------------- stop_run
StopContinue(t, next) ==
    Continue(t, next) /\ UNCHANGED <<ret, target, stopped>>

\* stop_run is left, by its last statement or through `except: pass` (lines
\* 288-289): it returns None to its caller, which is the thread's caller or
\* line 313 of read_single_internal_program
StopRunReturns(t, rp, al) ==
    IF ret[t] = "top"
    THEN /\ Leave(t, "ok", rp, al)
         /\ stopped' = [u \in Threads |-> stopped[u] \/ u \in target[t]]
         /\ target' = [target EXCEPT ![t] = {}]
         /\ UNCHANGED ret
    ELSE /\ Continue(t, ret[t])
         /\ ret' = [ret EXCEPT ![t] = "top"]
         /\ UNCHANGED <<target, stopped>>

\* stop_run() is called by a caller thread; the runs sleeping at line 271 at
\* that moment are remembered as the runs this request is aimed at
Stop_Call(t) ==
    /\ Enter(t, "stop_run", NoArg, "s283")
    /\ target' = [target EXCEPT ![t] = {u \in Threads \ {t} : pc[u] = "r271"}]
    /\ UNCHANGED <<shared, hist, stopped>>

\* line 283: self.stop(); an exception ends the try block
Stop_L283(t, o) ==
    /\ pc[t] = "s283"
    /\ IF o = "returns"
       THEN StopContinue(t, "s284")
       ELSE StopRunReturns(t, running_program, alive)
    /\ UNCHANGED <<shared, op, io>>

\* line 284: self.alive = False
Stop_L284(t) ==
    /\ pc[t] = "s284"
    /\ alive' = FALSE
    /\ StopContinue(t, "s285")
    /\ UNCHANGED <<running_program, interval, value, logging_time,
                   logging_temp, programs, started, op, io>>

\* line 285 as it would behave without the `except: pass` of lines 288-289:
\* the exception of a failed write leaves stop_run
Stop_L285_Propagates(t, o) ==
    /\ pc[t] = "s285"
    /\ t \in outstanding
    /\ io' = [io EXCEPT ![t] =
                Append(@, Request("w", REG_COMMAND, StopCommand, o))]
    /\ IF o = "ack"
       THEN StopContinue(t, "s286")
       ELSE /\ Leave(t, "ConnectionException", running_program, alive)
            /\ ret' = [ret EXCEPT ![t] = "top"]
            /\ UNCHANGED <<target, stopped>>
    /\ UNCHANGED <<shared, op>>

\* line 285: self.client.write_registers(address=148, values=(2)); an
\* exception ends the try block before line 286
Stop_L285(t, o) ==
    /\ pc[t] = "s285"
    /\ t \in outstanding
    /\ io' = [io EXCEPT ![t] =
                Append(@, Request("w", REG_COMMAND, StopCommand, o))]
    /\ IF o = "ack"
       THEN StopContinue(t, "s286")
       ELSE StopRunReturns(t, running_program, alive)
    /\ UNCHANGED <<shared, op>>

\* line 286: self.running_program = None, then stop_run returns
Stop_L286(t) ==
    /\ pc[t] = "s286"
    /\ running_program' = NoProgram
    /\ StopRunReturns(t, NoProgram, alive)
    /\ UNCHANGED <<alive, interval, value, logging_time, logging_temp,
                   programs, started, op, io>>

\* ------------------------------------------ read_single_internal_program
\* line 240: set by the constructor, which raises when it cannot connect
connected_to_furnace == TRUE

\* the asserts with the upper bound off by one
ValidProgramNumber_OffByOne(n) ==
    n > MinProgramNumber - 1 /\ n < MaxProgramNumber

\* lines 309-310: the two assert statements
ValidProgramNumber(n) == n > MinProgramNumber - 1 /\ n < MaxProgramNumber + 1

\* InternalProgram.__init__, lines 58-59
InternalProgramAccepts(n) == ~(n < MinProgramNumber \/ n > MaxProgramNumber)

ReadContinue(t, next) ==
    Continue(t, next) /\ UNCHANGED <<ret, target, stopped>>

ReadLeaves(t, res) ==
    Leave(t, res, running_program, alive) /\ UNCHANGED <<ret, target, stopped>>

Read_Call(t) ==
    /\ \E n \in ProgramNumbers :
          Enter(t, "read", [NoArg EXCEPT !.n = n], "q309")
    /\ UNCHANGED <<shared, ghost>>

\* lines 309-312: the asserts, the connection test, and the call of stop_run
\* (a controller that is not connected falls through and returns None)
Read_L309(t) ==
    /\ pc[t] = "q309"
    /\ IF ~ValidProgramNumber(arg[t].n)
       THEN ReadLeaves(t, "AssertionError")
       ELSE IF connected_to_furnace
       THEN /\ Continue(t, "s283")
            /\ ret' = [ret EXCEPT ![t] = "q313"]
            /\ UNCHANGED <<target, stopped>>
       ELSE ReadLeaves(t, "ok")
    /\ UNCHANGED <<shared, op, io>>

\* lines 313 and 343-345: start_internal_program(program_number) writes
\* (1, program_number, segment_number = 1) to the command register
Read_L313(t, o) ==
    /\ pc[t] = "q313"
    /\ t \in outstanding
    /\ io' = [io EXCEPT ![t] =
                Append(@, Request("w", REG_COMMAND,
                                  StartCommand(arg[t].n, 1), o))]
    /\ IF o = "ack"
       THEN ReadContinue(t, "q314")
       ELSE ReadLeaves(t, "ConnectionException")
    /\ UNCHANGED <<shared, op>>

\* line 314: time.sleep(self.interval)
Read_L314(t) ==
    /\ pc[t] = "q314"
    /\ ReadContinue(t, "q315")
    /\ UNCHANGED <<shared, op, io>>

\* lines 315-316: read the set point register, then build the
\* InternalProgram, whose constructor checks the program number again
Read_L315(t, o) ==
    /\ pc[t] = "q315"
    /\ t \in outstanding
    /\ io' = [io EXCEPT ![t] =
                Append(@, Request("r", REG_SET_POINT, <<1>>, o))]
    /\ IF o = "fails"
       THEN ReadLeaves(t, "ConnectionException")
       ELSE IF ~InternalProgramAccepts(arg[t].n)
       THEN ReadLeaves(t, "ValueError")
       ELSE ReadContinue(t, "q317")
    /\ UNCHANGED <<shared, op>>

\* lines 317 and 337-341: read_remaining_time reads two registers at 128 and
\* then evaluates Ending.Little (line 339), a name bound nowhere: NameError.
\* Lines 318-320 are never reached.
Read_L317(t, o) ==
    /\ pc[t] = "q317"
    /\ t \in outstanding
    /\ io' = [io EXCEPT ![t] =
                Append(@, Request("r", REG_REMAINING_TIME, <<2>>, o))]
    /\ ReadLeaves(t, IF o = "ack" THEN "NameError" ELSE "ConnectionException")
    /\ UNCHANGED <<shared, op>>

\* --------------------------------------------------------- specifications
RunStep(t) ==
    \/ Run_Call(t)
    \/ \E o \in ThreadOutcomes : Run_L254(t, o)
    \/ Run_L255(t)
    \/ Run_L256(t)
    \/ Run_L259(t)
    \/ Run_L261(t)
    \/ Run_L262(t)
    \/ \E o \in ThreadOutcomes : Run_L263(t, o)
    \/ Run_L270(t)
    \/ Run_L271(t)
    \/ Run_L272(t)
    \/ \E o \in ChannelOutcomes, raw \in RawValues : Run_L274(t, o, raw)

StopStep(t) ==
    \/ Stop_Call(t)
    \/ \E o \in ThreadOutcomes : Stop_L283(t, o)
    \/ Stop_L284(t)
    \/ \E o \in ChannelOutcomes : Stop_L285(t, o)
    \/ Stop_L286(t)

ReadStep(t) ==
    \/ Read_Call(t)
    \/ Read_L309(t)
    \/ \E o \in ChannelOutcomes : Read_L313(t, o)
    \/ Read_L314(t)
    \/ \E o \in ChannelOutcomes : Read_L315(t, o)
    \/ \E o \in ChannelOutcomes : Read_L317(t, o)

\* two threads on one controller: t1 calls run, which keeps it in the poll
\* loop; t2 is the thread that controls the furnace meanwhile, calling run,
\* stop_run or pause
Next ==
    \/ RunStep("t1")
    \/ RunStep("t2")
    \/ StopStep("t2")
    \/ Pause("t2")
    \/ Send("t1")
    \/ Send("t2")

Spec == Init /\ [][Next]_vars

\* one caller thread: calls follow one another
NextSeq ==
    \/ RunStep("t1")
    \/ StopStep("t1")
    \/ Pause("t1")
    \/ ReadStep("t1")
    \/ Send("t1")

SpecSeq == Init /\ [][NextSeq]_vars

\* a run on its own: one thread calls run, every register request is
\* acknowledged, and nobody calls stop_run or pause
RunProgress(t) ==
    \/ \E o \in ThreadOutcomes : Run_L254(t, o)
    \/ Run_L255(t)
    \/ Run_L256(t)
    \/ Run_L259(t)
    \/ Run_L261(t)
    \/ Run_L262(t)
    \/ \E o \in ThreadOutcomes : Run_L263(t, o)
    \/ Run_L270(t)
    \/ Run_L271(t)
    \/ Run_L272(t)
    \/ \E raw \in RawValues : Run_L274(t, "ack", raw)
    \/ Send(t)

NextAlone == Run_Call("t1") \/ RunProgress("t1")

\* the thread inside run is scheduled again and again: a statement of run
\* that can execute does execute
SpecAlone == Init /\ [][NextAlone]_vars /\ WF_vars(RunProgress("t1"))

\* ----------------------------------------------------------------- claims
RunEntryPCs == {"r254", "r255", "r256", "r259"}
LoopPCs == {"r270", "r271", "r272", "r274"}
StopPCs == {"s283", "s284", "s285", "s286"}

\* the values written to the command register by the requests of s, in order
RECURSIVE CommandWrites(_)
CommandWrites(s) ==
    IF s = <<>> THEN <<>>
    ELSE IF Head(s).k = "w" /\ Head(s).a = REG_COMMAND
         THEN <<Head(s).v>> \o CommandWrites(Tail(s))
         ELSE CommandWrites(Tail(s))

\* thread t is leaving its top-level stop_run call in this step
StopRunReturning(t) ==
    /\ op[t] = "stop_run"
    /\ pc[t] \in StopPCs
    /\ pc'[t] = "idle"

\* C1: a run request made while running_program is set is rejected with the
\* already-running error (ConnectionRefusedError) and issues no channel
\* request.  Stated for the statements of run up to the check of line 259:
\* while a program is recorded as running, the call either is still before
\* the check or has ended with ConnectionRefusedError, and it has issued
\* nothing.
C1_RunWhileRunningRejected ==
    [][\A t \in Threads :
          (op[t] = "run" /\ pc[t] \in RunEntryPCs
           /\ running_program # NoProgram)
          => /\ \/ pc'[t] \in RunEntryPCs
                \/ pc'[t] = "idle" /\ result'[t] = "ConnectionRefusedError"
             /\ io'[t] = <<>>]_vars

ExpectedRunWrites ==
    <<StopCommand, StartCommand(3, 0), StartCommand(3, 1),
      StartCommand(3, 2), StopCommand>>

C4_StopLeavesIdle ==
    [][\A t \in Threads : StopRunReturning(t) => Idle']_vars

\* C5: stop_run never raises: a finished stop_run call has returned
\* normally, whatever the outcome of self.stop() and of the stop write.
C5_StopNeverRaises ==
    \A t \in Threads :
        (op[t] = "stop_run" /\ pc[t] = "idle") => result[t] = "ok"

\* a stop_run call has returned although its stop write failed, with a
\* program recorded as running
C5_Witness ==
    \E t \in Threads :
        /\ op[t] = "stop_run" /\ pc[t] = "idle" /\ result[t] = "ok"
        /\ Len(io[t]) = 1 /\ io[t][1].res = "fails"
        /\ running_program # NoProgram

\* C6: stop_run is idempotent: a stop_run call that directly follows another
\* one of the same caller succeeds, leaves the controller Idle, and leaves
\* the local state the first call left.
C6_StopIdempotent ==
    [][\A t \in Threads :
          (StopRunReturning(t) /\ hist[t].stop)
          => /\ result'[t] = "ok"
             /\ Idle'
             /\ alive' = hist[t].alive
             /\ running_program' = hist[t].rp]_vars

C8_ProgramNumberValidated ==
    [][\A t \in Threads :
          (pc[t] = "q309" /\ pc'[t] # "q309")
          => IF arg[t].n >= 0 /\ arg[t].n <= 50
             THEN pc'[t] # "idle"
             ELSE /\ pc'[t] = "idle"
                  /\ result'[t] = "AssertionError"
                  /\ io'[t] = <<>>
                  /\ UNCHANGED shared]_vars

\* a read call was rejected by the validation
C8_Witness ==
    \E t \in Threads :
        /\ op[t] = "read" /\ pc[t] = "idle"
        /\ result[t] = "AssertionError" /\ io[t] = <<>>

\* the run of thread t has finished as the claim C9 describes: it returned,
\* having written a stop command and left the controller Idle
RunCompleted(t) ==
    /\ op[t] = "run" /\ pc[t] = "idle" /\ result[t] = "ok"
    /\ Idle
    /\ StopCommand \in {CommandWrites(io[t])[i] :
                          i \in 1 .. Len(CommandWrites(io[t]))}

\* the run of thread t is at a statement the model follows no further
BoundReached(t) ==
    \/ pc[t] = "r272" /\ value + interval > MaxValue
    \/ pc[t] = "r274" /\ Len(logging_time) >= MaxSamples

C12_TelemetryKeepsWrites ==
    \A t \in Threads :
        op[t] = "run" => CommandWrites(io[t]) = <<>>

\* a run with logging has sampled the temperature and is back at the test
\* of its loop
C12_Witness ==
    \E t \in Threads :
        /\ op[t] = "run" /\ pc[t] = "r270" /\ arg[t].log
        /\ Len(io[t]) >= 1
        /\ io[t][1].k = "r" /\ io[t][1].a = REG_TEMPERATURE
        /\ io[t][1].res = "ack"
        /\ Len(logging_time) >= 1

\* thread t is leaving its read_single_internal_program call in this step
ReadReturning(t) ==
    /\ op[t] = "read"
    /\ pc[t] # "idle"
    /\ pc'[t] = "idle"

\* every request of s was acknowledged
AllAcked(s) == \A i \in 1 .. Len(s) : s[i].res = "ack"

\* the channel operations the claim C13 lists for program number n
ExpectedReadRequests(n) ==
    <<Request("w", REG_COMMAND, StopCommand, "ack"),
      Request("w", REG_COMMAND, StartCommand(n, 1), "ack"),
      Request("r", REG_SET_POINT, <<1>>, "ack"),
      Request("r", REG_REMAINING_TIME, <<2>>, "ack"),
      Request("w", REG_COMMAND, StopCommand, "ack")>>

\* C13: reading an internal program with a valid number (0..50), when every
\* request is acknowledged, performs exactly: stop write, start write of that
\* program at segment 1, read of register 111, read of registers 128, stop
\* write (the settle wait is the statement between the start write and the
\* first read), and returns the program.
C13_ReadSequence ==
    [][\A t \in Threads :
          (ReadReturning(t) /\ arg[t].n >= 0 /\ arg[t].n <= 50
           /\ AllAcked(io'[t]))
          => /\ result'[t] = "ok"
             /\ io'[t] = ExpectedReadRequests(arg[t].n)]_vars

TelemetryReadFails(t) ==
    /\ pc[t] = "r274"
    /\ Len(io'[t]) = Len(io[t]) + 1
    /\ io'[t][Len(io'[t])].res = "fails"

RemainingTimeRead(t) ==
    /\ pc[t] = "q317"
    /\ Len(io'[t]) = Len(io[t]) + 1
    /\ io'[t][Len(io'[t])].res = "ack"

\* C16: once the remaining time h has been read, the read-back either ends
\* with an input error (h = 0) or goes on with the ramp s / h stored
\* (h > 0); whatever h is, it ends in no other way.
C16_RampFromHoldTime ==
    [][\A t \in Threads :
          RemainingTimeRead(t)
          => \/ pc'[t] = "idle" /\ result'[t] = "ValueError"
             \/ pc'[t] # "idle"]_vars

\* the requests of s hold a start write
HasStartWrite(s) ==
    \E i \in 1 .. Len(s) :
        s[i].k = "w" /\ s[i].a = REG_COMMAND /\ s[i].v[1] = OP_START

\* C17: on every path out of read_single_internal_program that has issued
\* the start write, the last command written to the furnace is stop.
C17_ReadEndsWithStop ==
    \A t \in Threads :
        (op[t] = "read" /\ pc[t] = "idle" /\ HasStartWrite(io[t]))
        => CommandWrites(io[t])[Len(CommandWrites(io[t]))] = StopCommand

RunReturning(t) ==
    /\ op[t] = "run"
    /\ pc[t] # "idle"
    /\ pc'[t] = "idle"

\* the program collection exists and is not empty
HasPrograms == programs.defined /\ programs.keys # {}

\* C19: a run request made while Idle that names a program missing from the
\* collection ends with KeyError, has issued no channel write and leaves the
\* controller Idle; and in the state such a request leaves (Idle, the thread
\* started by it) a run request with a valid name is accepted: it does not
\* end before line 261.
C19_MissingProgramRejected ==
    [][\A t \in Threads :
          /\ (RunReturning(t) /\ Idle /\ HasPrograms
              /\ arg[t].name \notin programs.keys)
             => /\ result'[t] = "KeyError"
                /\ CommandWrites(io'[t]) = <<>>
                /\ Idle'
          /\ (op[t] = "run" /\ pc[t] \in RunEntryPCs /\ Idle /\ started
              /\ HasPrograms /\ arg[t].name \in programs.keys)
             => pc'[t] # "idle"]_vars

\* thread t, whose latest call was not pause, executes pause() in this step
Pausing(t) ==
    /\ pc[t] = "idle"
    /\ op[t] # "pause"
    /\ op'[t] = "pause"

\* C20: pause() changes only the alive flag: no field but alive changes, no
\* request is sent; and while the controller is paused with running_program
\* still set (another thread's latest call was pause), a run request either
\* is still before the check of line 259 or has been rejected with
\* ConnectionRefusedError.
C20_PauseChangesOnlyAlive ==
    [][\A t \in Threads :
          /\ Pausing(t)
             => /\ UNCHANGED <<running_program, interval, value, logging_time,
                               logging_temp, programs, started, outstanding>>
                /\ io'[t] = <<>>
          /\ (op[t] = "run" /\ pc[t] \in RunEntryPCs
              /\ running_program # NoProgram /\ ~alive
              /\ \E u \in Threads \ {t} : op[u] = "pause")
             => \/ pc'[t] \in RunEntryPCs
                \/ pc'[t] = "idle"
                   /\ result'[t] = "ConnectionRefusedError"]_vars

====
